---- MODULE Spec2Model ----
(***************************************************************************)
(* PyDiag: the state-aware publication engine (HAPublisher), its publish   *)
(* cache (_MemoryCacheDict / _entity_state_memory), entity identity        *)
(* (HAEntities) and the per-interface throughput sampler (NetworkMonitor). *)
(*                                                                         *)
(* Spec         the engine: register_entity, publish_all, the clock and    *)
(*              the providers' environment.                                *)
(* SpecIdentity the engine with entities of every class sharing keys and   *)
(*              two providers, the clock standing still.                   *)
(* SpecMain     main(): connect, the monitors' tasks on the event loop, the *)
(*              publish loop, the finally block, the broker's handshake     *)
(*              on the network thread, and teardown.                        *)
(* SpecHeartbeat main() and the engine's cache over time: the register      *)
(*              loops, then publish_all every publish interval.             *)
(* SpecRound    main() with publish_all taken sensor by sensor and the      *)
(*              monitors' tasks on the same event loop.                     *)
(* SpecSampler  one NetworkMonitor: its sampling task and callers of       *)
(*              get_throughput, interleaved statement by statement (the    *)
(*              lock is a threading.Lock).                                 *)
(*                                                                         *)
(* Time is counted in whole seconds; the synchronous body of one handler   *)
(* reads the clock within one tick.                                        *)
(***************************************************************************)
EXTENDS Integers, Sequences, FiniteSets, TLC

VARIABLES
    now,                      \* datetime.now(), in seconds
    entity_value_getter_map,  \* HAPublisher.entity_value_getter_map: insertion-ordered dict
    memory,                   \* _entity_state_memory: the dict part (entity -> wire value)
    last_updated_map,         \* _entity_state_memory.last_updated_map (entity -> time)
    calls,                    \* the publish_entity_state calls of the publish_all that has just run, in order
    outcome,                  \* how the latest handler ended: "none", "returned", "raised"
    firstSent,                \* the latest publish_all: entities first transmitted in it, with the value
    counters,                 \* psutil.net_io_counters()[interface]: bytes_sent, bytes_recv, present
    throughput,               \* NetworkMonitor.throughput: tx, rx (rates) and the cycle that wrote each
    lock,                     \* NetworkMonitor.lock: "free" or its holder
    sampler,                  \* the _calculate_throughput task: pc and locals
    reader,                   \* a caller of get_throughput: pc and locals
    main,                     \* pydiag.main(): pc, loop index, rounds published, how it ended
    client,                   \* HAPublisher.client: will, session, network loop thread, availability messages
    tasks,                    \* per interface: the monitor's _monitorig_task
    ifaces,                   \* the interfaces psutil.net_io_counters(pernic=True) reports
    running                   \* the coroutine the event loop is running: "main", an interface's task, "none"

engineVars == <<now, entity_value_getter_map, memory, last_updated_map,
                calls, outcome, firstSent>>
samplerVars == <<counters, throughput, lock, sampler, reader>>
mainVars == <<main, client, tasks, ifaces, running>>
vars == <<engineVars, samplerVars, mainVars>>

----------------------------------------------------------------------------
(* Bounds *)

MaxTime == 2          \* the clock stops ticking here
MaxEntities == 2      \* register_entity adds no slot beyond this many

(* Configuration (environment variables with defaults), kept small. *)
MQTT_REPUBLISH_INTERVAL == 1
MQTT_PUBLISH_INTERVAL == 1
MQTT_PYDIAG_PREFIX == "pydiag/"
MQTT_CLIENT_ID == "client"

----------------------------------------------------------------------------
(* Entities: HAEntities.py *)

Classes == {"BaseEntity", "Sensor", "BinarySensor"}

\* issubclass(c, d) for the three dataclasses
IsSubclass(c, d) == c = d \/ d = "BaseEntity"

Entity(cls, uid, name) == [cls |-> cls, unique_id |-> uid, name |-> name]

\* The entities the operations are called with: one key and class under two
\* names, the same key in another class, and another key.
Entities ==
    { Entity("Sensor", "a", "n1"), Entity("Sensor", "a", "n2"),
      Entity("BaseEntity", "a", "n1"), Entity("BinarySensor", "b", "n1") }

TimedEntities == {Entity("Sensor", "a", "n1"), Entity("BinarySensor", "b", "n1")}

\* __hash__: hash(self.unique_id); two hashes are compared
HashEq(e, o) == e.unique_id = o.unique_id

\* __eq__ as written in each class: self.__eq__(o)
EntityEq(self, o) ==
    IF ~IsSubclass(o.cls, self.cls) THEN FALSE ELSE self.unique_id = o.unique_id

\* v == w as Python evaluates it: when type(w) is a proper subclass of type(v)
\* the reflected w.__eq__(v) is tried first; __eq__ never returns
\* NotImplemented here, so the first answer stands.
RichEq(v, w) ==
    IF v.cls # w.cls /\ IsSubclass(w.cls, v.cls) THEN EntityEq(w, v) ELSE EntityEq(v, w)

\* what equality looks at: the class and the key
EntityId(e) == <<e.cls, e.unique_id>>

state_topic(e) == <<MQTT_PYDIAG_PREFIX, MQTT_CLIENT_ID, e.unique_id>>

----------------------------------------------------------------------------
(* Python dict with entity keys: a sequence of [key, val] slots in insertion order *)

\* The slot a lookup of k finds: same hash and (identical or stored == k); 0 if none
DictIndex(d, k) ==
    LET hits == {i \in DOMAIN d : HashEq(d[i].key, k) /\ (d[i].key = k \/ RichEq(d[i].key, k))}
    IN IF hits = {} THEN 0 ELSE CHOOSE i \in hits : \A j \in hits : i <= j

DictHas(d, k) == DictIndex(d, k) # 0

DictGet(d, k) == d[DictIndex(d, k)].val

DictSetMovesToEnd(d, k, v) ==
    IF DictHas(d, k)
    THEN Append([j \in 1 .. Len(d) - 1 |->
                    IF j < DictIndex(d, k) THEN d[j] ELSE d[j + 1]],
                [key |-> k, val |-> v])
    ELSE Append(d, [key |-> k, val |-> v])

\* d[k] = v: an existing slot keeps its key object and its position
DictSet(d, k, v) ==
    IF DictHas(d, k)
    THEN [d EXCEPT ![DictIndex(d, k)].val = v]
    ELSE Append(d, [key |-> k, val |-> v])

----------------------------------------------------------------------------
(* Values and their wire form: publish_entity_state, line 237 *)

IntV(n) == [kind |-> "int", n |-> n, s |-> ""]
StrV(s) == [kind |-> "str", n |-> 0, s |-> s]

Values == {IntV(42), StrV("42"), IntV(7)}

\* json.dumps of a non-string value
JsonDumps(v) == ToString(v.n)

WireQuoted(v) == IF v.kind = "str" THEN "\"" \o v.s \o "\"" ELSE JsonDumps(v)

\* value = state_value if isinstance(state_value, str) else json.dumps(state_value)
Wire(v) == IF v.kind = "str" THEN v.s ELSE JsonDumps(v)

Getters == {"g1", "g2"}

----------------------------------------------------------------------------
(* The publish cache and publish_entity_state *)

\* _MemoryCacheDict.when_was_updated
WhenWasUpdated(lum, e) == IF DictHas(lum, e) THEN DictGet(lum, e) ELSE -1

NotCachedNever(mem, e) == FALSE

\* entity not in _entity_state_memory
NotCached(mem, e) == ~DictHas(mem, e)

ChangedNever(mem, e, value) == FALSE

\* _entity_state_memory[entity] != value (reached only when the entity is cached)
Changed(mem, e, value) == DictHas(mem, e) /\ DictGet(mem, e) # value

StaleAlways(lum, e, t) == TRUE

StaleAfterTwice(lum, e, t) == t - WhenWasUpdated(lum, e) > 2 * MQTT_REPUBLISH_INTERVAL + 1

StaleNever(lum, e, t) == FALSE

\* datetime.now() - when_was_updated(entity) > timedelta(seconds=MQTT_REPUBLISH_INTERVAL)
Stale(lum, e, t) == t - WhenWasUpdated(lum, e) > MQTT_REPUBLISH_INTERVAL

\* the condition of lines 243-244, evaluated left to right
ShouldPublish(mem, lum, e, value, t) ==
    NotCached(mem, e) \/ Changed(mem, e, value) \/ Stale(lum, e, t)

TransmitStampsAlways(mem, lum, e, v, g, t, ok, value, send, first) ==
    [mem |-> IF send THEN DictSet(mem, e, value) ELSE mem,
     lum |-> DictSet(lum, e, t),
     call |-> [entity |-> e, getter |-> g, state_value |-> v, value |-> value,
               topic |-> state_topic(e), time |-> t,
               hadEntry |-> DictHas(mem, e),
               memBefore |-> IF DictHas(mem, e) THEN DictGet(mem, e) ELSE "",
               updatedBefore |-> WhenWasUpdated(lum, e),
               firstBefore |-> {f.state_value : f \in {x \in first : x.id = EntityId(e)}},
               decision |-> IF send THEN "transmit" ELSE "skip",
               attempts |-> IF send THEN 1 ELSE 0,
               result |-> IF ~send THEN "none" ELSE IF ok THEN "ok" ELSE "failed"]]

\* lines 245-254 once the wire form and the decision are known: the cache is
\* written (__setitem__ stamps the time) before the transport is called
Transmit(mem, lum, e, v, g, t, ok, value, send, first) ==
    [mem |-> IF send THEN DictSet(mem, e, value) ELSE mem,
     lum |-> IF send THEN DictSet(lum, e, t) ELSE lum,
     call |-> [entity |-> e, getter |-> g, state_value |-> v, value |-> value,
               topic |-> state_topic(e), time |-> t,
               hadEntry |-> DictHas(mem, e),
               memBefore |-> IF DictHas(mem, e) THEN DictGet(mem, e) ELSE "",
               updatedBefore |-> WhenWasUpdated(lum, e),
               firstBefore |-> {f.state_value : f \in {x \in first : x.id = EntityId(e)}},
               decision |-> IF send THEN "transmit" ELSE "skip",
               attempts |-> IF send THEN 1 ELSE 0,
               result |-> IF ~send THEN "none" ELSE IF ok THEN "ok" ELSE "failed"]]

\* One call publish_entity_state(e, v) at time t on the cache (mem, lum); g is
\* the getter v came from and ok says whether the transport publish, if one is
\* attempted, completes.  first is carried into the call's record only.
PublishEntityState(mem, lum, e, v, g, t, ok, first) ==
    Transmit(mem, lum, e, v, g, t, ok, Wire(v), ShouldPublish(mem, lum, e, Wire(v), t), first)

RECURSIVE PublishAllFrom(_, _, _, _, _, _, _, _)

Prepend(c, rest) == [rest EXCEPT !.calls = <<c>> \o @]

PublishAllNextSwallows(i, reg, got, t, failAt, first, r) ==
    Prepend(r.call, PublishAllFrom(i + 1, reg, r.mem, r.lum, got, t, failAt, first))

\* after slot i's publish_entity_state ended as r: an exception from the
\* transport ends the loop, otherwise the next slot follows
PublishAllNext(i, reg, got, t, failAt, first, r) ==
    IF r.call.result = "failed"
    THEN [mem |-> r.mem, lum |-> r.lum, calls |-> <<r.call>>, raised |-> TRUE]
    ELSE Prepend(r.call, PublishAllFrom(i + 1, reg, r.mem, r.lum, got, t, failAt, first))

\* publish_all from slot i on: the slot's getter is called (it returns got[i]),
\* then publish_entity_state
PublishAllFrom(i, reg, mem, lum, got, t, failAt, first) ==
    IF i > Len(reg)
    THEN [mem |-> mem, lum |-> lum, calls |-> <<>>, raised |-> FALSE]
    ELSE PublishAllNext(i, reg, got, t, failAt, first,
                        PublishEntityState(mem, lum, reg[i].key, got[i],
                                           reg[i].val, t, failAt # i, first))

----------------------------------------------------------------------------
(* Engine actions *)

RegisterEntityStoresFirst(e, g, ok) ==
    /\ DictHas(entity_value_getter_map, e) \/ Len(entity_value_getter_map) < MaxEntities
    /\ entity_value_getter_map' = DictSet(entity_value_getter_map, e, g)
    /\ outcome' = IF ok THEN "returned" ELSE "raised"
    /\ calls' = <<>>
    /\ UNCHANGED <<now, memory, last_updated_map, firstSent>>
    /\ UNCHANGED <<samplerVars, mainVars>>

\* register_entity(e, g): the discovery document is published first (ok says
\* whether wait_for_publish returns); only then is the getter stored.
RegisterEntity(e, g, ok) ==
    /\ DictHas(entity_value_getter_map, e) \/ Len(entity_value_getter_map) < MaxEntities
    /\ entity_value_getter_map' =
          IF ok THEN DictSet(entity_value_getter_map, e, g) ELSE entity_value_getter_map
    /\ outcome' = IF ok THEN "returned" ELSE "raised"
    /\ calls' = <<>>
    /\ UNCHANGED <<now, memory, last_updated_map, firstSent>>
    /\ UNCHANGED <<samplerVars, mainVars>>

\* publish_all on the engine's own state
PublishAllEffect(got, failAt) ==
    \E r \in {PublishAllFrom(1, entity_value_getter_map, memory, last_updated_map,
                             got, now, failAt, firstSent)} :
       /\ memory' = r.mem
       /\ last_updated_map' = r.lum
       /\ calls' = r.calls
       /\ outcome' = IF r.raised THEN "raised" ELSE "returned"
       /\ firstSent' =
             {[id |-> EntityId(r.calls[i].entity), state_value |-> r.calls[i].state_value] :
                 i \in {j \in DOMAIN r.calls :
                           ~r.calls[j].hadEntry /\ r.calls[j].result = "ok"}}
       /\ UNCHANGED <<now, entity_value_getter_map>>

PublishAll(got, failAt) ==
    /\ PublishAllEffect(got, failAt)
    /\ UNCHANGED <<samplerVars, mainVars>>

Tick ==
    /\ now < MaxTime
    /\ now' = now + 1
    /\ calls' = <<>>
    /\ outcome' = "none"
    /\ UNCHANGED <<entity_value_getter_map, memory, last_updated_map, firstSent>>
    /\ UNCHANGED <<samplerVars, mainVars>>

EngineInit ==
    /\ now = 0
    /\ entity_value_getter_map = <<>>
    /\ memory = <<>>
    /\ last_updated_map = <<>>
    /\ calls = <<>>
    /\ outcome = "none"
    /\ firstSent = {}

----------------------------------------------------------------------------
(* NetworkMonitor: the sampling task and get_throughput *)

MaxAdvances == 2      \* the interface's counters advance at most this many times
MaxCycles == 2        \* the sampling loop is followed for this many cycles

\* NetworkMonitor(interface, sample_interval): seconds between the two reads
sample_interval == 2

\* Unit.factor of Bytes, KiloBytes, MegaBytes, GigaBytes
UnitFactors == {1, 1000, 1000000, 1000000000}

\* what the interface's counters may grow by between two observations
SentSteps == {0, 1, 2000, 2000000}
RecvSteps == {0, 400}

RECURSIVE GCD(_, _)
GCD(a, b) == IF b = 0 THEN a ELSE GCD(b, a % b)

\* a / b of two integers, b > 0, a >= 0: the exact quotient in lowest terms
Quot(a, b) == LET g == GCD(a, b) IN [num |-> a \div g, den |-> b \div g]

QuotRateIgnoresUnit(r, f) == r

\* a rate divided by an integer factor
QuotRate(r, f) == Quot(r.num, r.den * f)

Zero == [num |-> 0, den |-> 1]

RatePerSecondNoInterval(final, initial, other_final, other_initial) ==
    Quot(final - initial, 1)

\* (final - initial) / self.sample_interval, lines 54-55; the other direction's
\* readings are in scope where the rate is computed
RatePerSecond(final, initial, other_final, other_initial) ==
    Quot(final - initial, sample_interval)

LockAvailableAlways(l) == TRUE

\* threading.Lock: acquire returns only when no one holds it
LockAvailable(l) == l = "free"

NoResult == [tx |-> Zero, rx |-> Zero, txCycle |-> -1, rxCycle |-> -1, unit |-> 0]

SamplerInit ==
    /\ counters = [sent |-> 1000, recv |-> 2000, present |-> TRUE, advances |-> 0]
    /\ throughput = [tx |-> Zero, rx |-> Zero, txCycle |-> 0, rxCycle |-> 0]
    /\ lock = "free"
    /\ sampler = [pc |-> "idle", cycle |-> 0,
                  initial_sent |-> 0, initial_recv |-> 0,
                  final_sent |-> 0, final_recv |-> 0,
                  bytes_sent_per_second |-> Zero, bytes_received_per_second |-> Zero]
    /\ reader = [pc |-> "idle", unit |-> 1, tx |-> Zero, rx |-> Zero,
                 txCycle |-> -1, rxCycle |-> -1, result |-> NoResult]

\* the environment: traffic on the interface
CountersAdvance(ds, dr) ==
    /\ counters.present
    /\ counters.advances < MaxAdvances
    /\ counters' = [counters EXCEPT !.sent = @ + ds, !.recv = @ + dr, !.advances = @ + 1]
    /\ UNCHANGED <<throughput, lock, sampler, reader>>
    /\ UNCHANGED <<engineVars, mainVars>>

\* the environment: the interface disappears
InterfaceVanishes ==
    /\ counters.present
    /\ counters' = [counters EXCEPT !.present = FALSE]
    /\ UNCHANGED <<throughput, lock, sampler, reader>>
    /\ UNCHANGED <<engineVars, mainVars>>

\* start_monitoring: asyncio.create_task(self._calculate_throughput())
StartMonitoring ==
    /\ sampler.pc = "idle"
    /\ sampler' = [sampler EXCEPT !.pc = "read_initial"]
    /\ UNCHANGED <<counters, throughput, lock, reader>>
    /\ UNCHANGED <<engineVars, mainVars>>

SamplerReadInitialChecksOnce ==
    /\ sampler.pc = "read_initial"
    /\ sampler.cycle < MaxCycles
    /\ sampler' = IF ~counters.present /\ sampler.cycle = 0
                  THEN [sampler EXCEPT !.pc = "failed"]
                  ELSE [sampler EXCEPT !.pc = "sleeping",
                                       !.initial_sent = counters.sent,
                                       !.initial_recv = counters.recv]
    /\ UNCHANGED <<counters, throughput, lock, reader>>
    /\ UNCHANGED <<engineVars, mainVars>>

\* lines 35-40: the first read of the counters, then the task suspends (line 43)
SamplerReadInitial ==
    /\ sampler.pc = "read_initial"
    /\ sampler.cycle < MaxCycles
    /\ sampler' = IF ~counters.present
                  THEN [sampler EXCEPT !.pc = "failed"]
                  ELSE [sampler EXCEPT !.pc = "sleeping",
                                       !.initial_sent = counters.sent,
                                       !.initial_recv = counters.recv]
    /\ UNCHANGED <<counters, throughput, lock, reader>>
    /\ UNCHANGED <<engineVars, mainVars>>

\* lines 46-55: the sleep is over; the second read and the two rates
SamplerReadFinal ==
    /\ sampler.pc = "sleeping"
    /\ sampler' = IF ~counters.present
                  THEN [sampler EXCEPT !.pc = "failed"]
                  ELSE [sampler EXCEPT
                          !.pc = "acquire",
                          !.final_sent = counters.sent,
                          !.final_recv = counters.recv,
                          !.bytes_sent_per_second =
                              RatePerSecond(counters.sent, sampler.initial_sent,
                                            counters.recv, sampler.initial_recv),
                          !.bytes_received_per_second =
                              RatePerSecond(counters.recv, sampler.initial_recv,
                                            counters.sent, sampler.initial_sent)]
    /\ UNCHANGED <<counters, throughput, lock, reader>>
    /\ UNCHANGED <<engineVars, mainVars>>

\* line 58: with self.lock
SamplerAcquire ==
    /\ sampler.pc = "acquire"
    /\ LockAvailable(lock)
    /\ lock' = "sampler"
    /\ sampler' = [sampler EXCEPT !.pc = "write_tx"]
    /\ UNCHANGED <<counters, throughput, reader>>
    /\ UNCHANGED <<engineVars, mainVars>>

\* line 59: self.throughput["tx"] = bytes_sent_per_second
SamplerWriteTx ==
    /\ sampler.pc = "write_tx"
    /\ throughput' = [throughput EXCEPT !.tx = sampler.bytes_sent_per_second,
                                        !.txCycle = sampler.cycle + 1]
    /\ sampler' = [sampler EXCEPT !.pc = "write_rx"]
    /\ UNCHANGED <<counters, lock, reader>>
    /\ UNCHANGED <<engineVars, mainVars>>

\* line 60: self.throughput["rx"] = bytes_received_per_second
SamplerWriteRx ==
    /\ sampler.pc = "write_rx"
    /\ throughput' = [throughput EXCEPT !.rx = sampler.bytes_received_per_second,
                                        !.rxCycle = sampler.cycle + 1]
    /\ sampler' = [sampler EXCEPT !.pc = "release"]
    /\ UNCHANGED <<counters, lock, reader>>
    /\ UNCHANGED <<engineVars, mainVars>>

\* task.cancel() while the task is suspended in asyncio.sleep (line 43):
\* CancelledError is raised there and ends the task
SamplerCancel ==
    /\ sampler.pc = "sleeping"
    /\ sampler' = [sampler EXCEPT !.pc = "cancelled"]
    /\ UNCHANGED <<counters, throughput, lock, reader>>
    /\ UNCHANGED <<engineVars, mainVars>>

SamplerReleaseKeepsLock ==
    /\ sampler.pc = "release"
    /\ lock' = lock
    /\ sampler' = [sampler EXCEPT !.pc = "read_initial", !.cycle = @ + 1]
    /\ UNCHANGED <<counters, throughput, reader>>
    /\ UNCHANGED <<engineVars, mainVars>>

\* the end of the with block; the cycle is complete and the loop starts over
SamplerRelease ==
    /\ sampler.pc = "release"
    /\ lock' = "free"
    /\ sampler' = [sampler EXCEPT !.pc = "read_initial", !.cycle = @ + 1]
    /\ UNCHANGED <<counters, throughput, reader>>
    /\ UNCHANGED <<engineVars, mainVars>>

\* get_throughput(unit) is called; line 71: with self.lock
ReaderAcquire(f) ==
    /\ reader.pc = "idle"
    /\ LockAvailable(lock)
    /\ lock' = "reader"
    /\ reader' = [reader EXCEPT !.pc = "read_tx", !.unit = f]
    /\ UNCHANGED <<counters, throughput, sampler>>
    /\ UNCHANGED <<engineVars, mainVars>>

\* line 73: tx = self.throughput["tx"] / unit.factor
ReaderReadTx ==
    /\ reader.pc = "read_tx"
    /\ reader' = [reader EXCEPT !.pc = "read_rx",
                                !.tx = QuotRate(throughput.tx, reader.unit),
                                !.txCycle = throughput.txCycle]
    /\ UNCHANGED <<counters, throughput, lock, sampler>>
    /\ UNCHANGED <<engineVars, mainVars>>

\* line 74: rx = self.throughput["rx"] / unit.factor
ReaderReadRx ==
    /\ reader.pc = "read_rx"
    /\ reader' = [reader EXCEPT !.pc = "return",
                                !.rx = QuotRate(throughput.rx, reader.unit),
                                !.rxCycle = throughput.rxCycle]
    /\ UNCHANGED <<counters, throughput, lock, sampler>>
    /\ UNCHANGED <<engineVars, mainVars>>

\* line 75: return {"tx": tx, "rx": rx}; the with block releases the lock
ReaderReturn ==
    /\ reader.pc = "return"
    /\ lock' = "free"
    /\ reader' = [reader EXCEPT !.pc = "idle",
                                !.result = [tx |-> reader.tx, rx |-> reader.rx,
                                            txCycle |-> reader.txCycle,
                                            rxCycle |-> reader.rxCycle,
                                            unit |-> reader.unit]]
    /\ UNCHANGED <<counters, throughput, sampler>>
    /\ UNCHANGED <<engineVars, mainVars>>

----------------------------------------------------------------------------
(* pydiag.main(): the session, the monitors' tasks and the publish loop *)

MaxRounds == 2        \* the publish loop is followed for this many rounds

\* get_ifaces(), in the order main() walks it
Ifaces == <<"eth0", "wlan0">>

IfaceSet == {Ifaces[k] : k \in DOMAIN Ifaces}

\* f"{MQTT_PYDIAG_PREFIX}avail/{MQTT_CLIENT_ID}" as written in will_set
WillTopic == <<MQTT_PYDIAG_PREFIX, "avail/", MQTT_CLIENT_ID>>

\* f"{MQTT_PYDIAG_PREFIX}avail/{MQTT_CLIENT_ID}" as written in _on_connect
OnlineTopic == <<MQTT_PYDIAG_PREFIX, "avail/", MQTT_CLIENT_ID>>

NoFailure == [rounds |-> -1, cycles |-> [j \in IfaceSet |-> -1]]

NewTask == [pc |-> "none", cycles |-> 0, must_cancel |-> FALSE,
            cancelledAt |-> "none", atFailure |-> NoFailure]

\* asyncio.Task.done()
TaskDone(tk) == tk.pc \in {"failed", "cancelled"}

OnConnectAlways(rc_ok, log) ==
    Append(log, [topic |-> OnlineTopic, payload |-> "online", retain |-> TRUE, by |-> "client"])

\* _on_connect: a failure reason raises before the publish; otherwise 'online'
\* is published, retained, to the availability topic
OnConnect(rc_ok, log) ==
    IF ~rc_ok THEN log
    ELSE Append(log, [topic |-> OnlineTopic, payload |-> "online",
                      retain |-> TRUE, by |-> "client"])

FailTaskAll(ts, i, rounds) ==
    [j \in IfaceSet |->
        [ts[j] EXCEPT !.pc = "failed",
                      !.atFailure = [rounds |-> rounds,
                                     cycles |-> [k \in IfaceSet |-> ts[k].cycles]]]]

\* raise ValueError(...) in interface i's task: the exception ends that task
\* and is kept in it
FailTask(ts, i, rounds) ==
    [ts EXCEPT ![i].pc = "failed",
               ![i].atFailure = [rounds |-> rounds,
                                 cycles |-> [k \in IfaceSet |-> ts[k].cycles]]]

\* how `await task` ends once the task is done: the task's own exception is
\* raised in the caller; _calculate_throughput never returns
AwaitTask(tk) ==
    IF tk.pc = "cancelled" THEN "CancelledError"
    ELSE IF tk.pc = "failed" THEN "ValueError"
    ELSE "returned"

\* main() after `await task` ended as out: CancelledError is not an Exception
\* and leaves main(); ValueError reaches `except Exception` and sys.exit(1);
\* a normal return goes on with the next monitor, and after the last one the
\* exception that led into the finally block, if any, reaches sys.exit(1)
MainAfterWait(m, out) ==
    IF out = "CancelledError"
    THEN [m EXCEPT !.pc = "cancelled_error", !.wait = out, !.error = "CancelledError"]
    ELSE IF out = "ValueError"
    THEN [m EXCEPT !.pc = "exited", !.wait = out, !.error = "ValueError"]
    ELSE IF m.i < Len(Ifaces)
    THEN [m EXCEPT !.pc = "cancel", !.wait = out, !.i = @ + 1]
    ELSE IF m.pending = "Exception"
    THEN [m EXCEPT !.pc = "exited", !.wait = out, !.error = "publish"]
    ELSE [m EXCEPT !.pc = "returned", !.wait = out]

MainInit ==
    /\ main = [pc |-> "start", i |-> 1, rounds |-> 0, pending |-> "none",
               error |-> "none", wait |-> "none", k |-> 1, seen |-> <<>>]
    /\ client = [will |-> <<>>, session |-> "closed", loop |-> "stopped",
                 avail |-> <<>>, deleted |-> FALSE]
    /\ tasks = [j \in IfaceSet |-> NewTask]
    /\ ifaces = IfaceSet
    /\ running = "main"

\* pub = HAPublisher(): __init__ sets the last will
MainConstruct ==
    /\ running = "main" /\ main.pc = "start"
    /\ client' = [client EXCEPT !.will = <<[topic |-> WillTopic, payload |-> "offline",
                                            retain |-> TRUE]>>]
    /\ main' = [main EXCEPT !.pc = "connect"]
    /\ UNCHANGED <<tasks, ifaces, running>>
    /\ UNCHANGED <<engineVars, samplerVars>>

\* await pub.connect(): client.connect sends CONNECT (or fails to reach the
\* broker and raises), loop_start starts the network thread, connect returns;
\* the broker's answer is handled later on the network thread
MainConnect(tcp_ok) ==
    /\ running = "main" /\ main.pc = "connect"
    /\ client' = IF tcp_ok
                 THEN [client EXCEPT !.session = "connecting", !.loop = "running"]
                 ELSE client
    /\ main' = IF tcp_ok
               THEN [main EXCEPT !.pc = "start_monitors", !.i = 1]
               ELSE [main EXCEPT !.pc = "exited", !.error = "connect"]
    /\ UNCHANGED <<tasks, ifaces, running>>
    /\ UNCHANGED <<engineVars, samplerVars>>

\* the network thread receives CONNACK and calls _on_connect(rc); an
\* exception raised in the callback ends the network thread
Handshake(rc_ok) ==
    /\ client.session = "connecting" /\ client.loop = "running"
    /\ client' = [client EXCEPT !.session = IF rc_ok THEN "open" ELSE "refused",
                                !.loop = IF rc_ok THEN "running" ELSE "dead",
                                !.avail = OnConnect(rc_ok, client.avail)]
    /\ UNCHANGED <<main, tasks, ifaces, running>>
    /\ UNCHANGED <<engineVars, samplerVars>>

\* the connection breaks: the broker publishes the will, and _on_disconnect
\* raises on the network thread
ConnectionLost ==
    /\ client.session = "open"
    /\ client' = [client EXCEPT
                    !.session = "lost", !.loop = "dead",
                    !.avail = Append(@, [topic |-> client.will[1].topic,
                                         payload |-> client.will[1].payload,
                                         retain |-> client.will[1].retain,
                                         by |-> "broker"])]
    /\ UNCHANGED <<main, tasks, ifaces, running>>
    /\ UNCHANGED <<engineVars, samplerVars>>

\* monitor = NetworkMonitor(interface=iface); await monitor.start_monitoring()
MainStartMonitor ==
    /\ running = "main" /\ main.pc = "start_monitors"
    /\ tasks' = [tasks EXCEPT ![Ifaces[main.i]].pc = "pending"]
    /\ main' = IF main.i < Len(Ifaces)
               THEN [main EXCEPT !.i = @ + 1]
               ELSE [main EXCEPT !.pc = "register", !.i = 1]
    /\ UNCHANGED <<client, ifaces, running>>
    /\ UNCHANGED <<engineVars, samplerVars>>

\* the two register loops of main(); a register_entity that raises reaches
\* `except Exception` and sys.exit(1)
MainRegister(ok) ==
    /\ running = "main" /\ main.pc = "register"
    /\ main' = IF ok THEN [main EXCEPT !.pc = "publish"]
               ELSE [main EXCEPT !.pc = "exited", !.error = "register"]
    /\ UNCHANGED <<client, tasks, ifaces, running>>
    /\ UNCHANGED <<engineVars, samplerVars>>

\* await pub.publish_all(), then await asyncio.sleep(MQTT_PUBLISH_INTERVAL)
\* suspends main(); a publish_all that raises leads into the finally block
MainPublishAll(ok) ==
    /\ running = "main" /\ main.pc = "publish"
    /\ main.rounds < MaxRounds
    /\ main' = IF ok THEN [main EXCEPT !.pc = "sleep", !.rounds = @ + 1]
               ELSE [main EXCEPT !.pc = "cancel", !.i = 1, !.pending = "Exception"]
    /\ running' = IF ok THEN "none" ELSE "main"
    /\ UNCHANGED <<client, tasks, ifaces>>
    /\ UNCHANGED <<engineVars, samplerVars>>

\* the sleep is over
MainWake ==
    /\ running = "none" /\ main.pc = "sleep"
    /\ main' = [main EXCEPT !.pc = "publish"]
    /\ running' = "main"
    /\ UNCHANGED <<client, tasks, ifaces>>
    /\ UNCHANGED <<engineVars, samplerVars>>

\* KeyboardInterrupt while main() sleeps: logged, then the finally block
MainInterrupt ==
    /\ running = "none" /\ main.pc = "sleep"
    /\ main' = [main EXCEPT !.pc = "cancel", !.i = 1]
    /\ running' = "main"
    /\ UNCHANGED <<client, tasks, ifaces>>
    /\ UNCHANGED <<engineVars, samplerVars>>

\* task.cancel(): a task that is not done is asked to cancel
MainCancel ==
    /\ running = "main" /\ main.pc = "cancel"
    /\ tasks' = IF TaskDone(tasks[Ifaces[main.i]]) THEN tasks
                ELSE [tasks EXCEPT ![Ifaces[main.i]].must_cancel = TRUE]
    /\ main' = [main EXCEPT !.pc = "await"]
    /\ UNCHANGED <<client, ifaces, running>>
    /\ UNCHANGED <<engineVars, samplerVars>>

\* await task: a done task answers at once, otherwise main() is suspended
MainAwait ==
    /\ running = "main" /\ main.pc = "await"
    /\ main' = IF TaskDone(tasks[Ifaces[main.i]])
               THEN MainAfterWait(main, AwaitTask(tasks[Ifaces[main.i]]))
               ELSE [main EXCEPT !.pc = "awaiting"]
    /\ running' = IF TaskDone(tasks[Ifaces[main.i]]) THEN "main" ELSE "none"
    /\ UNCHANGED <<client, tasks, ifaces>>
    /\ UNCHANGED <<engineVars, samplerVars>>

\* the awaited task is done: main() is resumed with the task's outcome
MainAwaitResume ==
    /\ running = "none" /\ main.pc = "awaiting"
    /\ TaskDone(tasks[Ifaces[main.i]])
    /\ main' = MainAfterWait(main, AwaitTask(tasks[Ifaces[main.i]]))
    /\ running' = "main"
    /\ UNCHANGED <<client, tasks, ifaces>>
    /\ UNCHANGED <<engineVars, samplerVars>>

\* the environment: an interface disappears
IfaceVanishes(i) ==
    /\ i \in ifaces
    /\ ifaces' = ifaces \ {i}
    /\ UNCHANGED <<main, client, tasks, running>>
    /\ UNCHANGED <<engineVars, samplerVars>>

\* the event loop runs interface i's task: for the first time, or because its
\* sleep is over; a task asked to cancel gets CancelledError where it stands
TaskResume(i) ==
    /\ running = "none"
    /\ tasks[i].pc \in {"pending", "sleeping"}
    /\ tasks[i].must_cancel \/ tasks[i].cycles < MaxCycles
    /\ tasks' = IF tasks[i].must_cancel
                THEN [tasks EXCEPT ![i].pc = "cancelled", ![i].cancelledAt = tasks[i].pc]
                ELSE [tasks EXCEPT ![i].pc = IF tasks[i].pc = "pending"
                                             THEN "read_initial" ELSE "read_final"]
    /\ running' = IF tasks[i].must_cancel THEN "none" ELSE i
    /\ UNCHANGED <<main, client, ifaces>>
    /\ UNCHANGED <<engineVars, samplerVars>>

\* lines 35-43: the first read, then the task suspends in asyncio.sleep
TaskReadInitial(i) ==
    /\ running = i /\ tasks[i].pc = "read_initial"
    /\ tasks' = IF i \in ifaces THEN [tasks EXCEPT ![i].pc = "sleeping"]
                ELSE FailTask(tasks, i, main.rounds)
    /\ running' = "none"
    /\ UNCHANGED <<main, client, ifaces>>
    /\ UNCHANGED <<engineVars, samplerVars>>

\* lines 46-55: the second read and the rates
TaskReadFinal(i) ==
    /\ running = i /\ tasks[i].pc = "read_final"
    /\ tasks' = IF i \in ifaces THEN [tasks EXCEPT ![i].pc = "update"]
                ELSE FailTask(tasks, i, main.rounds)
    /\ running' = IF i \in ifaces THEN i ELSE "none"
    /\ UNCHANGED <<main, client, ifaces>>
    /\ UNCHANGED <<engineVars, samplerVars>>

\* lines 58-61: the locked update; the cycle is complete, back to line 35
TaskUpdate(i) ==
    /\ running = i /\ tasks[i].pc = "update"
    /\ tasks' = [tasks EXCEPT ![i].pc = "read_initial", ![i].cycles = @ + 1]
    /\ UNCHANGED <<main, client, ifaces, running>>
    /\ UNCHANGED <<engineVars, samplerVars>>

\* HAPublisher.__del__ once main() is over: loop_stop(), then disconnect()
\* sends DISCONNECT on an open session, on which the broker drops the will
Teardown ==
    /\ main.pc \in {"exited", "cancelled_error", "returned"}
    /\ ~client.deleted
    /\ client.will # <<>>
    /\ client' = [client EXCEPT
                    !.deleted = TRUE,
                    !.loop = "stopped",
                    !.session = IF @ \in {"open", "connecting"} THEN "released" ELSE @]
    /\ UNCHANGED <<main, tasks, ifaces, running>>
    /\ UNCHANGED <<engineVars, samplerVars>>

Init == EngineInit /\ SamplerInit /\ MainInit

\* The engine over time: two sensors with different keys, one getter.
Next ==
    \/ \E e \in TimedEntities, ok \in BOOLEAN : RegisterEntity(e, "g1", ok)
    \/ \E got \in [DOMAIN entity_value_getter_map -> Values],
          failAt \in 0 .. Len(entity_value_getter_map) : PublishAll(got, failAt)
    \/ Tick

Spec == Init /\ [][Next]_vars

\* The engine's registry and cache under every entity and getter, at one time.
NextIdentity ==
    \/ \E e \in Entities, g \in Getters, ok \in BOOLEAN : RegisterEntity(e, g, ok)
    \/ \E got \in [DOMAIN entity_value_getter_map -> Values],
          failAt \in 0 .. Len(entity_value_getter_map) : PublishAll(got, failAt)

SpecIdentity == Init /\ [][NextIdentity]_vars

NextSampler ==
    \/ \E ds \in SentSteps, dr \in RecvSteps : CountersAdvance(ds, dr)
    \/ InterfaceVanishes
    \/ StartMonitoring
    \/ SamplerReadInitial
    \/ SamplerReadFinal
    \/ SamplerAcquire
    \/ SamplerWriteTx
    \/ SamplerWriteRx
    \/ SamplerRelease
    \/ SamplerCancel
    \/ \E f \in UnitFactors : ReaderAcquire(f)
    \/ ReaderReadTx
    \/ ReaderReadRx
    \/ ReaderReturn

SpecSampler == Init /\ [][NextSampler]_vars

NextMain ==
    \/ MainConstruct
    \/ \E tcp_ok \in BOOLEAN : MainConnect(tcp_ok)
    \/ \E rc_ok \in BOOLEAN : Handshake(rc_ok)
    \/ ConnectionLost
    \/ MainStartMonitor
    \/ \E ok \in BOOLEAN : MainRegister(ok)
    \/ \E ok \in BOOLEAN : MainPublishAll(ok)
    \/ MainWake
    \/ MainInterrupt
    \/ MainCancel
    \/ MainAwait
    \/ MainAwaitResume
    \/ \E i \in IfaceSet : IfaceVanishes(i)
    \/ \E i \in IfaceSet : TaskResume(i)
    \/ \E i \in IfaceSet : TaskReadInitial(i)
    \/ \E i \in IfaceSet : TaskReadFinal(i)
    \/ \E i \in IfaceSet : TaskUpdate(i)
    \/ Teardown

SpecMain == Init /\ [][NextMain]_vars

\* main() in its register loops: one register_entity that returns
LoopRegister(e) ==
    /\ running = "main" /\ main.pc = "register"
    /\ RegisterEntity(e, "g1", TRUE)

\* main() in its publish loop, line 204: a publish_all in which every
\* transport publish completes; main() then stands at its sleep
LoopPublishAll(got) ==
    /\ running = "main" /\ main.pc = "publish"
    /\ PublishAllEffect(got, 0)
    /\ main' = [main EXCEPT !.pc = "sleep"]
    /\ UNCHANGED <<client, tasks, ifaces, running>>
    /\ UNCHANGED samplerVars

\* line 205: await asyncio.sleep(MQTT_PUBLISH_INTERVAL) is over
LoopSleep ==
    /\ running = "main" /\ main.pc = "sleep"
    /\ now + MQTT_PUBLISH_INTERVAL <= MaxTime
    /\ now' = now + MQTT_PUBLISH_INTERVAL
    /\ main' = [main EXCEPT !.pc = "publish"]
    /\ calls' = <<>>
    /\ outcome' = "none"
    /\ UNCHANGED <<entity_value_getter_map, memory, last_updated_map, firstSent>>
    /\ UNCHANGED <<client, tasks, ifaces, running>>
    /\ UNCHANGED samplerVars

\* main() from its start through its publish loop while no call fails later
\* than the register loops, the clock moving only in the loop's sleep
NextHeartbeat ==
    \/ MainConstruct
    \/ \E tcp_ok \in BOOLEAN : MainConnect(tcp_ok)
    \/ \E rc_ok \in BOOLEAN : Handshake(rc_ok)
    \/ MainStartMonitor
    \/ \E e \in TimedEntities : LoopRegister(e)
    \/ \E ok \in BOOLEAN : MainRegister(ok)
    \/ \E got \in [DOMAIN entity_value_getter_map -> Values] : LoopPublishAll(got)
    \/ LoopSleep

SpecHeartbeat == Init /\ [][NextHeartbeat]_vars

\* create_network_sensors: per monitor the RX sensor, then the TX sensor, each
\* with a getter that calls the monitor's get_throughput
NetworkSensors ==
    [k \in 1 .. 2 * Len(Ifaces) |->
        [iface |-> Ifaces[(k + 1) \div 2], dir |-> IF k % 2 = 1 THEN "rx" ELSE "tx"]]

AfterPublishEntityStateYields == "none"

\* who holds the event loop after `await self.publish_entity_state(...)`:
\* the coroutine has no suspension point (wait_for_publish blocks the thread)
AfterPublishEntityState == "main"

\* one iteration of publish_all's loop over the network sensors: the getter
\* reads the monitor's stored pair (written by the cycle tasks[..].cycles),
\* then publish_entity_state; after the last sensor main() goes to its sleep
MainPublishEntity(ok) ==
    /\ running = "main" /\ main.pc = "publish"
    /\ main.rounds < MaxRounds
    /\ \E s \in {NetworkSensors[main.k]} :
         \E reading \in {[iface |-> s.iface, dir |-> s.dir, cycle |-> tasks[s.iface].cycles]} :
           \E seen \in {IF main.k = 1 THEN <<reading>> ELSE Append(main.seen, reading)} :
              main' = IF ~ok
                      THEN [main EXCEPT !.pc = "cancel", !.i = 1, !.k = 1,
                                        !.pending = "Exception", !.seen = seen]
                      ELSE IF main.k < Len(NetworkSensors)
                      THEN [main EXCEPT !.k = @ + 1, !.seen = seen]
                      ELSE [main EXCEPT !.pc = "sleep", !.k = 1, !.rounds = @ + 1,
                                        !.seen = seen]
    /\ running' = IF ~ok THEN "main"
                  ELSE IF main.k < Len(NetworkSensors) THEN AfterPublishEntityState
                  ELSE "none"
    /\ UNCHANGED <<client, tasks, ifaces>>
    /\ UNCHANGED <<engineVars, samplerVars>>

\* the event loop resumes main() where it is suspended in its publish loop
LoopResumesMain ==
    /\ running = "none" /\ main.pc \in {"sleep", "publish"}
    /\ main' = [main EXCEPT !.pc = "publish"]
    /\ running' = "main"
    /\ UNCHANGED <<client, tasks, ifaces>>
    /\ UNCHANGED <<engineVars, samplerVars>>

\* main() up to and in its publish loop, publish_all taken sensor by sensor,
\* with the monitors' tasks on the same event loop
NextRound ==
    \/ MainConstruct
    \/ \E tcp_ok \in BOOLEAN : MainConnect(tcp_ok)
    \/ MainStartMonitor
    \/ \E ok \in BOOLEAN : MainRegister(ok)
    \/ \E ok \in BOOLEAN : MainPublishEntity(ok)
    \/ LoopResumesMain
    \/ \E i \in IfaceSet : IfaceVanishes(i)
    \/ \E i \in IfaceSet : TaskResume(i)
    \/ \E i \in IfaceSet : TaskReadInitial(i)
    \/ \E i \in IfaceSet : TaskReadFinal(i)
    \/ \E i \in IfaceSet : TaskUpdate(i)

SpecRound == Init /\ [][NextRound]_vars

----------------------------------------------------------------------------
(* Claims about the publish cache, checked under Spec.  calls holds the       *)
(* publish_entity_state calls of the publish_all that has just run; within    *)
(* one publish_all every call is for another cache key, so the cache after    *)
(* the publish_all shows each call's effect.                                  *)

Elapsed(c) == c.time - c.updatedBefore

\* C1: a publish decision for an entity with no cache entry is 'transmit',
\* and afterwards the cache holds the offered wire value for the entity with
\* the time of the call as its update time.
C1_FirstPublishRecorded ==
    \A i \in DOMAIN calls :
        ~calls[i].hadEntry =>
            /\ calls[i].decision = "transmit"
            /\ DictHas(memory, calls[i].entity)
            /\ DictGet(memory, calls[i].entity) = calls[i].value
            /\ WhenWasUpdated(last_updated_map, calls[i].entity) = calls[i].time

\* C1 witness: an uncached entity was offered a value after the clock had
\* moved, and the publish completed.
C1_Witness ==
    \E i \in DOMAIN calls :
        ~calls[i].hadEntry /\ calls[i].result = "ok" /\ calls[i].time > 0

\* C2: when the value offered has the wire form the cache holds and less than
\* the republish interval has passed since the entry was written, the decision
\* is 'do not transmit' and no state message is sent.
C2_FreshUnchangedSkipped ==
    \A i \in DOMAIN calls :
        (/\ calls[i].hadEntry
         /\ calls[i].memBefore = calls[i].value
         /\ Elapsed(calls[i]) < MQTT_REPUBLISH_INTERVAL)
        => calls[i].decision = "skip" /\ calls[i].result = "none"

\* C2 witness: the cached wire value is offered again before the interval is over.
C2_Witness ==
    \E i \in DOMAIN calls :
        /\ calls[i].hadEntry
        /\ calls[i].memBefore = calls[i].value
        /\ Elapsed(calls[i]) < MQTT_REPUBLISH_INTERVAL
        /\ calls[i].decision = "skip"

\* C3: when the value offered has another wire form than the cached one the
\* decision is 'transmit', whatever time has passed, and the cache then holds
\* the new wire value.
C3_ChangedTransmits ==
    \A i \in DOMAIN calls :
        (calls[i].hadEntry /\ calls[i].memBefore # calls[i].value) =>
            /\ calls[i].decision = "transmit"
            /\ DictGet(memory, calls[i].entity) = calls[i].value

\* C3 witness: a different wire value is offered with no time elapsed.
C3_Witness ==
    \E i \in DOMAIN calls :
        /\ calls[i].hadEntry
        /\ calls[i].memBefore # calls[i].value
        /\ Elapsed(calls[i]) = 0
        /\ calls[i].decision = "transmit"

\* C4 as claimed: the cached wire value offered again when the republish
\* interval or more has passed (in particular exactly the interval) is
\* transmitted.
C4_Original ==
    \A i \in DOMAIN calls :
        (/\ calls[i].hadEntry
         /\ calls[i].memBefore = calls[i].value
         /\ Elapsed(calls[i]) >= MQTT_REPUBLISH_INTERVAL)
        => calls[i].decision = "transmit"

\* C4 as amended: the cached wire value offered again is transmitted when
\* strictly more than the republish interval has passed, and is not
\* transmitted when exactly the interval has passed.
C4_StaleTransmits ==
    \A i \in DOMAIN calls :
        (calls[i].hadEntry /\ calls[i].memBefore = calls[i].value) =>
            /\ Elapsed(calls[i]) > MQTT_REPUBLISH_INTERVAL => calls[i].decision = "transmit"
            /\ Elapsed(calls[i]) = MQTT_REPUBLISH_INTERVAL => calls[i].decision = "skip"

\* C4 witness: a heartbeat refresh, the unchanged value transmitted after more
\* than the interval.
C4_Witness ==
    \E i \in DOMAIN calls :
        /\ calls[i].hadEntry
        /\ calls[i].memBefore = calls[i].value
        /\ Elapsed(calls[i]) > MQTT_REPUBLISH_INTERVAL
        /\ calls[i].decision = "transmit"

\* C5 as claimed: a first publish_entity_state for an entity (no cache entry
\* before the call) whose transport publish fails leaves no cache entry for
\* that entity.
C5_Original ==
    \A i \in DOMAIN calls :
        (~calls[i].hadEntry /\ calls[i].result = "failed") =>
            ~DictHas(memory, calls[i].entity)

\* The wire form the claim describes: strings unchanged, 42 as "42", 7 as "7".
ExpectedPayload(v) ==
    IF v.kind = "str" THEN v.s
    ELSE IF v.n = 42 THEN "42" ELSE IF v.n = 7 THEN "7" ELSE "?"

\* The messages of the publish_all that has just run that carry entity e's state.
MessagesFor(e) ==
    {i \in DOMAIN calls : calls[i].decision = "transmit" /\ RichEq(calls[i].entity, e)}

C18_FailureSurfaced ==
    /\ \A i \in DOMAIN calls :
          /\ calls[i].attempts <= 1
          /\ calls[i].attempts = (IF calls[i].decision = "transmit" THEN 1 ELSE 0)
          /\ calls[i].result = "failed" => (outcome = "raised" /\ i = Len(calls))
    /\ (outcome = "returned" /\ calls # <<>>) =>
          \A i \in DOMAIN calls : calls[i].result # "failed"

\* C18 witness: the second call of a publish_all failed after the first had
\* been transmitted.
C18_Witness ==
    /\ Len(calls) = 2
    /\ calls[1].result = "ok"
    /\ calls[2].result = "failed"
    /\ outcome = "raised"

\* C19 as claimed: the cache holds the payload of the entity's most recent
\* transmission that completed; a transmission that failed leaves the
\* entity's entry as it was before the call (absent, or the value it held).
C19_Original ==
    \A i \in DOMAIN calls :
        calls[i].result = "failed" =>
            IF calls[i].hadEntry
            THEN DictGet(memory, calls[i].entity) = calls[i].memBefore
            ELSE ~DictHas(memory, calls[i].entity)

\* C20: a publish_all changes the cache only for the entities it transmits:
\* every cache slot of an entity without a 'transmit' decision keeps its
\* value and its update time, and an entity whose decision was 'do not
\* transmit' has the value and the update time it had before the call.
C20_SkipLeavesCache ==
    [][ calls' # <<>> =>
          /\ \A k \in DOMAIN memory :
                (\A i \in DOMAIN calls' :
                    calls'[i].decision = "transmit"
                       => DictIndex(memory, calls'[i].entity) # k)
                => /\ k \in DOMAIN memory'
                   /\ memory'[k] = memory[k]
                   /\ last_updated_map'[k] = last_updated_map[k]
          /\ \A i \in DOMAIN calls' :
                calls'[i].decision = "skip" =>
                   /\ calls'[i].hadEntry
                   /\ DictGet(memory', calls'[i].entity) = calls'[i].memBefore
                   /\ WhenWasUpdated(last_updated_map', calls'[i].entity)
                         = calls'[i].updatedBefore ]_vars

\* C20 witness: one entity was skipped at a later time than its entry was
\* written, while another entity was transmitted in the same publish_all.
C20_Witness ==
    \E i \in DOMAIN calls, j \in DOMAIN calls :
        /\ calls[i].decision = "skip"
        /\ calls[i].time > calls[i].updatedBefore
        /\ WhenWasUpdated(last_updated_map, calls[i].entity) = calls[i].updatedBefore
        /\ calls[j].decision = "transmit"

----------------------------------------------------------------------------
(* Claims about entity identity and the registry, checked under SpecIdentity *)

SlotsOfKey(d, uid) == {i \in DOMAIN d : d[i].key.unique_id = uid}

\* C7 as claimed: a register_entity call that completes for an entity whose
\* unique key the registry already holds leaves the registry's size unchanged,
\* and afterwards the registry maps that key to the provider passed in this
\* call.
C7_Original ==
    [][ \A e \in Entities, g \in Getters :
          (/\ RegisterEntity(e, g, TRUE)
           /\ SlotsOfKey(entity_value_getter_map, e.unique_id) # {})
          => /\ Len(entity_value_getter_map') = Len(entity_value_getter_map)
             /\ \A i \in SlotsOfKey(entity_value_getter_map', e.unique_id) :
                   entity_value_getter_map'[i].val = g ]_vars

\* C8 as claimed: entities with the same unique key share one registry slot
\* and one cache entry, whatever their class and other attributes.
C8_Original ==
    /\ \A e \in Entities : Cardinality(SlotsOfKey(entity_value_getter_map, e.unique_id)) <= 1
    /\ \A e \in Entities : Cardinality(SlotsOfKey(memory, e.unique_id)) <= 1

\* the keys of a dict in slot order
Keys(d) == [k \in DOMAIN d |-> d[k].key]

\* C17 as claimed: in every publish_all invocation each registered entity's
\* provider is invoked exactly once, in the registry's order.
C17_Original ==
    calls # <<>> =>
        /\ Len(calls) = Len(entity_value_getter_map)
        /\ \A k \in DOMAIN calls :
              /\ calls[k].entity = entity_value_getter_map[k].key
              /\ calls[k].getter = entity_value_getter_map[k].val

\* C17 as amended: the registry keeps its keys in the order of their first
\* registration (a register_entity that completes appends a new key and leaves
\* the place of an existing one); a publish_all that returns has called each
\* slot's provider exactly once in that order; one that raises has done so
\* for the slots up to the one whose transmission failed and for no later one.
C17_OrderedOnce ==
    /\ [](calls # <<>> =>
            /\ Len(calls) <= Len(entity_value_getter_map)
            /\ \A k \in DOMAIN calls :
                  /\ calls[k].entity = entity_value_getter_map[k].key
                  /\ calls[k].getter = entity_value_getter_map[k].val
            /\ outcome = "returned" => Len(calls) = Len(entity_value_getter_map)
            /\ outcome = "raised" =>
                  /\ calls[Len(calls)].result = "failed"
                  /\ \A k \in 1 .. Len(calls) - 1 : calls[k].result # "failed")
    /\ [][ \A e \in Entities, g \in Getters :
             RegisterEntity(e, g, TRUE) =>
                Keys(entity_value_getter_map') =
                   IF \E k \in DOMAIN entity_value_getter_map :
                         /\ HashEq(entity_value_getter_map[k].key, e)
                         /\ RichEq(entity_value_getter_map[k].key, e)
                   THEN Keys(entity_value_getter_map)
                   ELSE Append(Keys(entity_value_getter_map), e) ]_vars

\* C17 witness: a publish_all over two slots raised at the first, whose key
\* is held under the name it was first registered with and whose provider is
\* the one of a later registration; the second slot's provider was not called.
C17_Witness ==
    /\ Len(entity_value_getter_map) = 2
    /\ entity_value_getter_map[1].key = Entity("Sensor", "a", "n1")
    /\ entity_value_getter_map[1].val = "g2"
    /\ entity_value_getter_map[2].val = "g1"
    /\ outcome = "raised"
    /\ Len(calls) = 1
    /\ calls[1].getter = "g2"

\* C24: a register_entity whose discovery publish fails raises, and leaves
\* the registry as it was: no slot is added, and every slot keeps its key
\* and its provider.
C24_FailedRegisterNoChange ==
    [][ /\ \A e \in Entities, g \in Getters :
              RegisterEntity(e, g, FALSE) => outcome' = "raised"
        /\ (outcome' = "raised" /\ calls' = <<>>) =>
              entity_value_getter_map' = entity_value_getter_map ]_vars

\* C24 witness: a register_entity has just raised while the registry holds a
\* key with its first provider.
C24_Witness ==
    /\ outcome = "raised"
    /\ calls = <<>>
    /\ Len(entity_value_getter_map) = 1
    /\ entity_value_getter_map[1].val = "g1"

----------------------------------------------------------------------------
(* Claims about the sampler, checked under SpecSampler *)

\* C9: every pair get_throughput returns, and every pair it has read and is
\* about to return, has its tx and its rx written by the same sample cycle
\* (cycle 0 being the initial zeros), however the sampler's update and the
\* reader's statements interleave.
C9_NoTornPair ==
    /\ reader.result.txCycle = reader.result.rxCycle
    /\ reader.pc = "return" => reader.txCycle = reader.rxCycle

\* C9 witness: the reader holds the lock between its two reads while the
\* sampler stands at its with statement with a pair that differs from the
\* stored one in both directions.
C9_Witness ==
    /\ reader.pc = "read_rx"
    /\ lock = "reader"
    /\ sampler.pc = "acquire"
    /\ sampler.bytes_sent_per_second # throughput.tx
    /\ sampler.bytes_received_per_second # throughput.rx

\* C10: when a sample cycle has completed (the task is back at the top of its
\* loop), the stored tx times the sample interval is final_sent - initial_sent
\* and the stored rx times the sample interval is final_recv - initial_recv,
\* for the readings of that cycle, and both were written by that cycle.
C10_RatesOfCycle ==
    (sampler.pc = "read_initial" /\ sampler.cycle >= 1) =>
        /\ throughput.tx.num * sample_interval
              = (sampler.final_sent - sampler.initial_sent) * throughput.tx.den
        /\ throughput.rx.num * sample_interval
              = (sampler.final_recv - sampler.initial_recv) * throughput.rx.den
        /\ throughput.txCycle = sampler.cycle
        /\ throughput.rxCycle = sampler.cycle

\* C10 witness: sent 1000 -> 3000 and recv 2000 -> 2400 over 2 s gives
\* tx = 1000 and rx = 200.
C10_Witness ==
    /\ sampler.pc = "read_initial"
    /\ sampler.cycle = 1
    /\ sampler.initial_sent = 1000 /\ sampler.final_sent = 3000
    /\ sampler.initial_recv = 2000 /\ sampler.final_recv = 2400
    /\ throughput.tx = [num |-> 1000, den |-> 1]
    /\ throughput.rx = [num |-> 200, den |-> 1]

\* q = r / f as fractions: some k has q.num * k = r.num and q.den * k = r.den * f
IsRateOver(q, r, f) ==
    \E k \in {GCD(r.num, r.den * f)} :
        k > 0 /\ q.num * k = r.num /\ q.den * k = r.den * f

\* C11: get_throughput(unit) returns the stored tx and the stored rx each
\* divided by the unit's factor (result times factor is the stored rate), it
\* never changes the stored pair, and a call that finds the pair the previous
\* call with the same unit found returns what that call returned.
C11_ConversionPure ==
    [][ /\ reader' # reader => throughput' = throughput
        /\ (reader.pc = "return" /\ reader'.pc = "idle") =>
              /\ reader'.result.unit = reader.unit
              /\ reader.unit \in {1, 1000, 1000000, 1000000000}
              /\ IsRateOver(reader'.result.tx, throughput.tx, reader.unit)
              /\ IsRateOver(reader'.result.rx, throughput.rx, reader.unit)
              /\ (/\ reader.result.unit = reader.unit
                  /\ reader.result.txCycle = throughput.txCycle
                  /\ reader.result.rxCycle = throughput.rxCycle)
                 => reader'.result = reader.result ]_vars

\* C11 witness: 1,000,000 B/s stored, get_throughput(MegaBytes) has returned 1.
C11_Witness ==
    /\ reader.pc = "idle"
    /\ throughput.tx = [num |-> 1000000, den |-> 1]
    /\ throughput.txCycle = reader.result.txCycle
    /\ reader.result.unit = 1000000
    /\ reader.result.tx = [num |-> 1, den |-> 1]

----------------------------------------------------------------------------
(* Claims about main(), the tasks and the session, checked under SpecMain *)

\* C12 as claimed: a task that is cancelled ends where it was suspended, never
\* between its second read and the update; and once main() has cancelled a
\* task and its wait on that task is over, the task has terminated and main()
\* has resumed normally.
C12_Original ==
    /\ \A i \in IfaceSet :
          tasks[i].pc = "cancelled" => tasks[i].cancelledAt \in {"pending", "sleeping"}
    /\ \A i \in IfaceSet :
          (tasks[i].must_cancel /\ main.pc \notin {"await", "awaiting"})
          => /\ tasks[i].pc = "cancelled"
             /\ tasks[i].cancelledAt = "sleeping" => main.wait = "returned"

\* C13: when an interface's task fails, nothing but that task changes: main()
\* and every other task are where they were, the other tasks can still be
\* resumed and complete cycles, the publish loop can still wake up and run
\* publish_all, and main() ends with the task's ValueError only when it waits
\* on the task in its finally block.
C13_FailureIsLocal ==
    /\ [](\A i \in IfaceSet : tasks[i].pc = "failed" =>
            /\ (main.pc = "sleep" /\ running = "none") => ENABLED MainWake
            /\ (main.pc = "publish" /\ running = "main" /\ main.rounds < MaxRounds)
                  => ENABLED MainPublishAll(TRUE)
            /\ \A j \in IfaceSet \ {i} :
                  (/\ running = "none"
                   /\ tasks[j].pc = "sleeping"
                   /\ tasks[j].cycles < MaxCycles)
                  => ENABLED TaskResume(j)
            /\ main.error = "ValueError" => main.wait = "ValueError")
    /\ [][ \A i \in IfaceSet :
             (tasks[i].pc # "failed" /\ tasks'[i].pc = "failed") =>
                /\ main' = main
                /\ client' = client
                /\ \A j \in IfaceSet \ {i} : tasks'[j] = tasks[j] ]_vars

\* C13 witness: after one task failed, another task has completed a cycle and
\* the publish loop has completed a round.
C13_Witness ==
    \E i \in IfaceSet, j \in IfaceSet :
        /\ i # j
        /\ tasks[i].pc = "failed"
        /\ tasks[j].pc = "sleeping"
        /\ tasks[j].cycles > tasks[i].atFailure.cycles[j]
        /\ main.rounds > tasks[i].atFailure.rounds
        /\ main.pc = "sleep"

\* C14 as claimed: when the broker's handshake has reported a failure reason,
\* main() has ended in its connect call and has neither registered entities
\* nor run a publish round.
C14_Original ==
    client.session = "refused" =>
        /\ main.pc = "exited"
        /\ main.error = "connect"
        /\ main.rounds = 0

\* C15: once the session is being opened the last will is 'offline', retained,
\* on the availability topic; a handshake that succeeds publishes exactly one
\* retained 'online' to the topic of the will; a handshake that fails
\* publishes nothing, and no 'online' is found after a failed handshake.
C15_WillThenOnline ==
    /\ [](client.session # "closed" =>
            client.will = <<[topic |-> <<MQTT_PYDIAG_PREFIX, "avail/", MQTT_CLIENT_ID>>,
                             payload |-> "offline", retain |-> TRUE]>>)
    /\ [](client.session = "refused" =>
            \A k \in DOMAIN client.avail : client.avail[k].payload # "online")
    /\ [][ /\ (client.session = "connecting" /\ client'.session = "open") =>
                 client'.avail = Append(client.avail,
                                        [topic |-> client.will[1].topic, payload |-> "online",
                                         retain |-> TRUE, by |-> "client"])
           /\ (client.session = "connecting" /\ client'.session = "refused") =>
                 client'.avail = client.avail ]_vars

\* C15 witness: the handshake succeeded and 'online' is the one message on
\* the availability topic.
C15_Witness ==
    /\ client.session = "open"
    /\ Len(client.avail) = 1
    /\ client.avail[1].payload = "online"
    /\ client.avail[1].topic = client.will[1].topic

\* C16 as claimed: after the teardown of an engine whose handshake had
\* succeeded and whose session was released by the teardown, the last message
\* on the availability topic is 'offline'.
C16_Original ==
    (client.deleted /\ client.session = "released" /\ client.avail # <<>>) =>
        client.avail[Len(client.avail)].payload = "offline"

\* C23 as claimed: once the transport has reported a disconnect with a
\* failure reason, main() completes no further publish_all round.
C23_Original ==
    [][ client.session = "lost" => main'.rounds = main.rounds ]_vars

\* C26 as claimed: when main() is over after its finally block, every task
\* that was started has been cancelled or had failed, and has terminated.
C26_Original ==
    (main.pc \in {"exited", "cancelled_error", "returned"} /\ main.wait # "none") =>
        \A i \in IfaceSet : tasks[i].pc # "none" => TaskDone(tasks[i])

----------------------------------------------------------------------------
(* Claims about the publish loop over time, checked under SpecHeartbeat *)

\* C21: while main() runs publish_all every publish interval and no publish
\* fails, every registered entity has a cache entry after each round, at most
\* the republish interval old; before a round the entry is at most the
\* republish interval plus the publish interval old; and a round that finds
\* an entry older than the republish interval transmits the entity, whether
\* or not its value changed.  So two transmissions of an entity are never
\* further apart than the republish interval plus the publish interval.
C21_HeartbeatBound ==
    /\ \A k \in DOMAIN entity_value_getter_map :
          /\ main.pc = "sleep" =>
                /\ DictHas(memory, entity_value_getter_map[k].key)
                /\ now - WhenWasUpdated(last_updated_map, entity_value_getter_map[k].key)
                      <= MQTT_REPUBLISH_INTERVAL
          /\ DictHas(memory, entity_value_getter_map[k].key) =>
                now - WhenWasUpdated(last_updated_map, entity_value_getter_map[k].key)
                   <= MQTT_REPUBLISH_INTERVAL + MQTT_PUBLISH_INTERVAL
    /\ \A i \in DOMAIN calls :
          /\ Elapsed(calls[i]) <= MQTT_REPUBLISH_INTERVAL + MQTT_PUBLISH_INTERVAL
          /\ Elapsed(calls[i]) > MQTT_REPUBLISH_INTERVAL =>
                (calls[i].decision = "transmit" /\ calls[i].result = "ok")

\* C21 witness: an entity whose value never changed is transmitted again in
\* the round in which its entry is the republish interval plus the publish
\* interval old.
C21_Witness ==
    /\ main.pc = "sleep"
    /\ \E i \in DOMAIN calls :
          /\ calls[i].hadEntry
          /\ calls[i].memBefore = calls[i].value
          /\ Elapsed(calls[i]) = MQTT_REPUBLISH_INTERVAL + MQTT_PUBLISH_INTERVAL
          /\ calls[i].decision = "transmit"
          /\ calls[i].result = "ok"

----------------------------------------------------------------------------
(* Claims about one publish_all and the tasks, checked under SpecRound *)

\* C28: in every publish_all the TX getter of an interface reads the pair of
\* the same sample cycle as the RX getter of that interface read just before
\* it, and while a publish_all is under way no task completes a cycle.
C28_SameCycle ==
    /\ [](\A k \in DOMAIN main.seen :
            k % 2 = 0 =>
               /\ main.seen[k].iface = main.seen[k - 1].iface
               /\ main.seen[k - 1].dir = "rx"
               /\ main.seen[k].dir = "tx"
               /\ main.seen[k].cycle = main.seen[k - 1].cycle)
    /\ [][ (main.pc = "publish" /\ main.k > 1) =>
              \A i \in IfaceSet : tasks'[i].cycles = tasks[i].cycles ]_vars

\* C28 witness: the second publish_all has published both interfaces' rx and
\* tx, the first interface's from the cycle its task completed while main()
\* slept.
C28_Witness ==
    /\ main.pc = "sleep"
    /\ main.rounds = 2
    /\ Len(main.seen) = 4
    /\ main.seen[1].cycle = 1
    /\ main.seen[2].cycle = 1

----------------------------------------------------------------------------
(* Further claims about the sampler, checked under SpecSampler *)

\* C22: whenever the task finds the interface's counters missing, at its
\* first or at its second read and in whatever iteration, it ends as failed;
\* the failing step leaves the stored pair alone, a failed task takes no
\* further step and the pair is never written again: it stays the pair of the
\* last completed cycle.
C22_FailureKeepsPair ==
    /\ [](sampler.pc = "failed" =>
            /\ throughput.txCycle = sampler.cycle
            /\ throughput.rxCycle = sampler.cycle)
    /\ [][ /\ (/\ sampler.pc \in {"read_initial", "sleeping"}
               /\ sampler'.pc \notin {sampler.pc, "cancelled"}
               /\ ~counters.present)
              => (sampler'.pc = "failed" /\ throughput' = throughput)
           /\ sampler.pc = "failed" => (sampler' = sampler /\ throughput' = throughput)
         ]_vars

\* C22 witness: the second iteration failed at its second read (its first
\* read saw counters beyond the first cycle's last reading), and the pair is
\* the first cycle's.
C22_Witness ==
    /\ sampler.pc = "failed"
    /\ sampler.cycle = 1
    /\ sampler.initial_sent > sampler.final_sent
    /\ throughput.txCycle = 1
    /\ throughput.rxCycle = 1
    /\ throughput.tx # Zero

\* C27: the lock is held by the sampler only between its with statement and
\* the end of the with block, where its next statement can always be taken;
\* a task that is not started, suspended, cancelled or failed does not hold
\* it; a reader holds it only inside get_throughput, where its next statement
\* can always be taken; and whenever nobody holds it a call of get_throughput
\* can acquire it.
C27_LockNotHeldAcross ==
    /\ lock = "sampler" <=> sampler.pc \in {"write_tx", "write_rx", "release"}
    /\ sampler.pc \in {"idle", "sleeping", "cancelled", "failed"} => lock # "sampler"
    /\ lock = "sampler" => ENABLED (SamplerWriteTx \/ SamplerWriteRx \/ SamplerRelease)
    /\ lock = "reader" <=> reader.pc \in {"read_tx", "read_rx", "return"}
    /\ lock = "reader" => ENABLED (ReaderReadTx \/ ReaderReadRx \/ ReaderReturn)
    /\ (lock = "free" /\ reader.pc = "idle") => ENABLED ReaderAcquire(1000)

\* C27 witness: get_throughput holds the lock after the task was cancelled
\* in its second iteration.
C27_Witness ==
    /\ sampler.pc = "cancelled"
    /\ sampler.cycle = 1
    /\ lock = "reader"
    /\ reader.pc = "read_tx"

====
